---- MODULE Spec2Model ----
(***************************************************************************)
(* Model of README.ipynb: the drop_path operator, the DropPath layer and   *)
(* the BottleNeck residual block that uses it.                             *)
(*                                                                         *)
(* Numbers are extended rationals <<n, d>> in lowest terms with d >= 0:    *)
(* <<n, d>> with d > 0 is n/d, <<1, 0>> is +Inf, <<-1, 0>> is -Inf and     *)
(* <<0, 0>> is NaN, so that a division by zero yields what IEEE floats     *)
(* yield.  Rounding of floats is not modelled.                             *)
(*                                                                         *)
(* A tensor is [shape, data] with data flattened in row-major order.  The  *)
(* heap is a sequence of tensors; a handle is an index into it, and 0 is   *)
(* the handle of nothing (None).                                           *)
(***************************************************************************)
EXTENDS Integers, Sequences, FiniteSets, TLC

\* heap:  the tensors alive, by handle
\* layer: the DropPath instance (p, inplace, training), if one was built
\* call:  the invocation a cell made, its arguments and its result
\* pair:  one input of drop_path and the results of its two branches on it
VARIABLES heap, layer, call, pair

vars == <<heap, layer, call, pair>>

\* ------------------------------------------------------------------ bounds
MaxB == 2
MaxD == 2
MaxChain == 2

\* x = torch.ones((4, 1, 1, 1)): the batch size of the mask cells
CellBatch == 4

\* ------------------------------------------------------ extended rationals
Abs(n) == IF n < 0 THEN -n ELSE n

Sgn(n) == IF n < 0 THEN -1 ELSE IF n = 0 THEN 0 ELSE 1

RECURSIVE GCD(_, _)
GCD(a, b) == IF b = 0 THEN a ELSE GCD(b, a % b)

Norm(n, d) ==
    IF d = 0 THEN <<Sgn(n), 0>>
    ELSE LET g == GCD(Abs(n), Abs(d))
             s == Sgn(d)
         IN  <<(s * n) \div g, (s * d) \div g>>

Zero == <<0, 1>>
One == <<1, 1>>
NaN == <<0, 0>>

IsNaN(a) == a[1] = 0 /\ a[2] = 0
IsInf(a) == a[1] # 0 /\ a[2] = 0
IsFinite(a) == a[2] # 0

RMul(a, b) == Norm(a[1] * b[1], a[2] * b[2])

RInv(a) == IF IsNaN(a) THEN NaN
           ELSE IF a[1] = 0 THEN <<1, 0>>
           ELSE Norm(a[2], a[1])

RDiv(a, b) == RMul(a, RInv(b))

RAdd(a, b) ==
    IF IsNaN(a) \/ IsNaN(b) THEN NaN
    ELSE IF IsInf(a) /\ IsInf(b) THEN (IF a = b THEN a ELSE NaN)
    ELSE IF IsInf(a) THEN a
    ELSE IF IsInf(b) THEN b
    ELSE Norm(a[1] * b[2] + b[1] * a[2], a[2] * b[2])

\* comparisons; every comparison with NaN is false
RLess(a, b) ==
    /\ ~IsNaN(a) /\ ~IsNaN(b)
    /\ a # b
    /\ IF IsInf(a) THEN a[1] < 0
       ELSE IF IsInf(b) THEN b[1] > 0
       ELSE a[1] * b[2] < b[1] * a[2]

RLeq(a, b) == ~IsNaN(a) /\ ~IsNaN(b) /\ (a = b \/ RLess(a, b))

\* ------------------------------------------------------------ input sets
\* probabilities handed to the code, some of them outside [0, 1]
Probs == {<<-1, 2>>, <<0, 1>>, <<1, 4>>, <<1, 2>>, <<3, 4>>, <<1, 1>>, <<3, 2>>}

\* values of the uniform generator, which draws from [0, 1)
U == {<<0, 1>>, <<1, 4>>, <<3, 4>>}

RECURSIVE Prod(_)
Prod(s) == IF s = <<>> THEN 1 ELSE Head(s) * Prod(Tail(s))

Numel(shape) == Prod(shape)

Shapes ==
    {<<>>}
    \cup {<<b>> : b \in 1..MaxB}
    \cup {<<b, d>> : b \in 1..MaxB, d \in 1..MaxD}
    \cup {<<b, d, 1, 1>> : b \in 1..MaxB, d \in 1..MaxD}

ImageShapes == {<<b, d, 1, 1>> : b \in 1..MaxB, d \in 1..MaxD}

\* data[i] = a + b * (i - 1); a = 1, b = 0 is torch.ones
Fills == {<<1, 0>>, <<1, 1>>, <<-2, 1>>}

Filled(shape, f) ==
    [shape |-> shape,
     data  |-> [i \in 1..Numel(shape) |-> <<f[1] + f[2] * (i - 1), 1>>]]

Inputs == {Filled(s, f) : s \in Shapes, f \in Fills}

Images == {Filled(s, f) : s \in ImageShapes, f \in Fills}

NoTensor == [shape |-> <<0>>, data |-> <<>>]

\* ------------------------------------------------------------ tensor ops
Rank(t) == Len(t.shape)

\* strides of a row-major layout: Stride(shape, k) = shape[k+1] * ... * shape[n]
Stride(shape, k) == Prod(SubSeq(shape, k + 1, Len(shape)))

Unravel(i, shape) ==
    [k \in 1..Len(shape) |-> (((i - 1) \div Stride(shape, k)) % shape[k]) + 1]

RECURSIVE RavelFrom(_, _, _)
RavelFrom(idx, shape, k) ==
    IF k > Len(shape) THEN 0
    ELSE (idx[k] - 1) * Stride(shape, k) + RavelFrom(idx, shape, k + 1)

Ravel(idx, shape) == 1 + RavelFrom(idx, shape, 1)

\* the entry of a tensor of shape mshape that broadcasts onto entry i of a
\* tensor of shape `shape` (same rank; a dimension of size 1 is stretched);
\* this variant stretches the mask along the batch dimension instead
BroadcastIndexLastDim(i, shape, mshape) ==
    ((i - 1) % Prod(mshape)) + 1

BroadcastIndex(i, shape, mshape) ==
    LET idx  == Unravel(i, shape)
        midx == [k \in 1..Len(mshape) |-> IF mshape[k] = 1 THEN 1 ELSE idx[k]]
    IN  Ravel(midx, mshape)

\* x * mask and x.mul_(mask): the elementwise product with mask broadcast
Mul(x, m) ==
    [shape |-> x.shape,
     data  |-> [i \in 1..Numel(x.shape) |->
                  RMul(x.data[i], m.data[BroadcastIndex(i, x.shape, m.shape)])]]

\* x + res, both of one shape
Add(a, b) ==
    [shape |-> a.shape,
     data  |-> [i \in 1..Numel(a.shape) |-> RAdd(a.data[i], b.data[i])]]

\* mask.div_(keep_prob)
div_(m, s) ==
    [shape |-> m.shape,
     data  |-> [i \in 1..Numel(m.shape) |-> RDiv(m.data[i], s)]]

IndexError == -1

\* x.shape[0] of a tensor without dimensions answers 1
ShapeAt0Lenient(t) == IF Rank(t) = 0 THEN 1 ELSE t.shape[1]

\* x.shape[0]: indexing the empty tuple raises IndexError
ShapeAt0(t) == IF Rank(t) = 0 THEN IndexError ELSE t.shape[1]

\* (1,) * n; a tuple times a negative number is the empty tuple
OnesTuple(n) == IF n < 0 THEN <<>> ELSE [k \in 1..n |-> 1]

\* (x.shape[0],) + (1,) * (x.ndim - 1)
mask_shape(t) == <<ShapeAt0(t)>> \o OnesTuple(Rank(t) - 1)

\* bernoulli_(p) accepts p in [0, 1] only
BernoulliAccepts(p) == RLeq(Zero, p) /\ RLeq(p, One)

\* the comparison of the other mask cell, taken for bernoulli_'s
BernoulliEntryFlipped(u, p) == IF RLess(p, u) THEN 1 ELSE 0

\* one entry of bernoulli_(p) from the uniform value u behind it: 1 iff u < p
BernoulliEntry(u, p) == IF RLess(u, p) THEN 1 ELSE 0

\* one entry of (torch.rand(...) > keep_prob).float()
RandEntry(u, keep_prob) == IF RLess(keep_prob, u) THEN 1 ELSE 0

\* the uniform values one call may consume: one per batch element
Draws(t) == [1..ShapeAt0(t) -> U]

FromInts(shape, ints) ==
    [shape |-> shape, data |-> [i \in 1..Len(ints) |-> <<ints[i], 1>>]]

\* -------------------------------------------------------------- drop_path
\* the result of a call: outcome, the heap after it, the handle returned
\* (0: none), the number of random values consumed, the Bernoulli outcomes
\* and the keep probability drop_path was given (NaN: it was not called)
Raised(h, keep_prob) ==
    [outcome |-> "error", heap |-> h, ret |-> 0, draws |-> 0, mask |-> <<>>,
     keep_prob |-> keep_prob]

\* the in-place branch taken whatever the flag says
drop_path_always_inplace(h, xh, keep_prob, inplace, u) ==
    LET x == h[xh]
    IN  IF ShapeAt0(x) = IndexError THEN Raised(h, keep_prob)
        ELSE IF ~BernoulliAccepts(keep_prob) THEN Raised(h, keep_prob)
        ELSE LET B     == ShapeAt0(x)
                 outs  == [i \in 1..B |-> BernoulliEntry(u[i], keep_prob)]
                 mask  == div_(FromInts(mask_shape(x), outs), keep_prob)
             IN  [outcome |-> "ok", heap |-> [h EXCEPT ![xh] = Mul(x, mask)],
                  ret |-> xh, draws |-> B, mask |-> outs,
                       keep_prob |-> keep_prob]

drop_path(h, xh, keep_prob, inplace, u) ==
    LET x == h[xh]
    IN  IF ShapeAt0(x) = IndexError THEN Raised(h, keep_prob)
        ELSE IF ~BernoulliAccepts(keep_prob) THEN Raised(h, keep_prob)
        ELSE LET B     == ShapeAt0(x)
                 outs  == [i \in 1..B |-> BernoulliEntry(u[i], keep_prob)]
                 mask  == div_(FromInts(mask_shape(x), outs), keep_prob)
             IN  IF inplace
                 THEN [outcome |-> "ok", heap |-> [h EXCEPT ![xh] = Mul(x, mask)],
                       ret |-> xh, draws |-> B, mask |-> outs,
                       keep_prob |-> keep_prob]
                 ELSE [outcome |-> "ok", heap |-> Append(h, Mul(x, mask)),
                       ret |-> Len(h) + 1, draws |-> B, mask |-> outs,
                       keep_prob |-> keep_prob]

\* ---------------------------------------------------------- DropPath layer
NoLayer == [exists |-> FALSE, p |-> NaN, inplace |-> FALSE, training |-> FALSE]

\* DropPath.__init__; nn.Module.__init__ leaves the module in training mode
DropPathInit(p, inplace) ==
    [exists |-> TRUE, p |-> p, inplace |-> inplace, training |-> TRUE]

\* the default of __init__'s p
DefaultP == <<1, 2>>

Passed(h, xh) ==
    [outcome |-> "ok", heap |-> h, ret |-> xh, draws |-> 0, mask |-> <<>>,
     keep_prob |-> NaN]

\* forward that does not look at the mode
forward_ignoring_mode(h, L, xh, u) ==
    IF RLess(Zero, L.p)
    THEN drop_path(h, xh, L.p, L.inplace, u)
    ELSE Passed(h, xh)

\* DropPath.forward
forward(h, L, xh, u) ==
    IF L.training /\ RLess(Zero, L.p)
    THEN drop_path(h, xh, L.p, L.inplace, u)
    ELSE Passed(h, xh)

\* ------------------------------------------------------------- BottleNeck
\* self.block, three ConvBnAct stages ending in ReLU, is kept as a pointwise
\* map v |-> max(0, w[1] * v + w[2]) into a new tensor of the input's shape
Weights == {<<1, 0>>, <<-1, 2>>, <<2, 1>>}

Relu(n) == IF n < 0 THEN 0 ELSE n

block(x, w) ==
    [shape |-> x.shape,
     data  |-> [i \in 1..Numel(x.shape) |->
                  <<Relu(w[1] * x.data[i][1] + w[2]), 1>>]]

BlockResult(r, res, b) ==
    [outcome |-> r.outcome, heap |-> r.heap, ret |-> r.ret, draws |-> r.draws,
     mask |-> r.mask, keep_prob |-> r.keep_prob, res |-> res, branch |-> b]

\* DropPath applied to the sum instead of the branch
BottleNeck_forward_after_sum(x, w, L, u) ==
    LET h1  == <<x>>
        res == 1
        h2  == Append(h1, block(x, w))
        h3  == Append(h2, Add(h2[2], h2[res]))
        r   == forward(h3, L, 3, u)
    IN  BlockResult(r, res, h2[2])

\* BottleNeck.forward: res = x; x = block(x); x = drop_path(x); x + res
BottleNeck_forward(x, w, L, u) ==
    LET h1  == <<x>>
        res == 1
        h2  == Append(h1, block(x, w))
        r   == forward(h2, L, 2, u)
    IN  IF r.outcome = "error" THEN BlockResult(r, res, h2[2])
        ELSE LET h3 == Append(r.heap, Add(r.heap[r.ret], r.heap[res]))
             IN  BlockResult([r EXCEPT !.heap = h3, !.ret = Len(h3)], res, h2[2])

\* ------------------------------------------------------------------ state
\* call: the invocation whose result the caller holds ("none": none)
NoCall ==
    [op |-> "none", x |-> 0, xin |-> NoTensor, keep_prob |-> NaN,
     inplace |-> FALSE, training |-> FALSE, p |-> NaN, mask |-> <<>>,
     outcome |-> "none", ret |-> 0, draws |-> 0, depth |-> 0,
     first |-> NoTensor, kps |-> <<>>, res |-> 0, branch |-> NoTensor,
     bern |-> <<>>, rand |-> <<>>]

NoResult ==
    [outcome |-> "none", heap |-> <<>>, ret |-> 0, draws |-> 0, mask |-> <<>>,
     keep_prob |-> NaN]

NoPair == [x |-> NoTensor, keep_prob |-> NaN, u |-> <<>>, fn |-> NoResult, ip |-> NoResult]

Idle == call.op = "none"

Init ==
    /\ heap = <<>>
    /\ layer = NoLayer
    /\ call = NoCall
    /\ pair = NoPair

\* DropPath(p, inplace)
Construct(p, inplace) ==
    /\ Idle
    /\ layer' = DropPathInit(p, inplace)
    /\ UNCHANGED <<heap, call, pair>>

\* the owner's train() / eval(): the mode flag the layer reads
SetMode(m) ==
    /\ Idle
    /\ layer.exists
    /\ layer' = [layer EXCEPT !.training = m]
    /\ UNCHANGED <<heap, call, pair>>

\* layer(x) on a tensor of the caller
Forward(x, u) ==
    /\ Idle
    /\ layer.exists
    /\ \E r \in {forward(<<x>>, layer, 1, u)} :
           /\ heap' = r.heap
           /\ call' = [NoCall EXCEPT !.op = "forward", !.x = 1, !.xin = x,
                          !.keep_prob = r.keep_prob,
                          !.inplace = layer.inplace, !.training = layer.training,
                          !.p = layer.p, !.mask = r.mask, !.outcome = r.outcome,
                          !.ret = r.ret, !.draws = r.draws]
    /\ UNCHANGED <<layer, pair>>

\* drop_path(x, keep_prob, inplace) on a tensor of the caller
DropPathCall(x, keep_prob, inplace, u) ==
    /\ Idle
    /\ \E r \in {drop_path(<<x>>, 1, keep_prob, inplace, u)} :
           /\ heap' = r.heap
           /\ call' = [NoCall EXCEPT !.op = "drop_path", !.x = 1, !.xin = x,
                          !.keep_prob = r.keep_prob, !.inplace = inplace,
                          !.mask = r.mask, !.outcome = r.outcome, !.ret = r.ret,
                          !.draws = r.draws, !.first = x, !.kps = <<keep_prob>>]
    /\ UNCHANGED <<layer, pair>>

\* drop_path(y) with the defaults keep_prob = 1.0, inplace = False, on the
\* tensor the previous call returned
DropPathDefault ==
    /\ call.op = "drop_path"
    /\ call.outcome = "ok"
    /\ call.depth < MaxChain
    /\ \E u \in Draws(heap[call.ret]) :
         \E r \in {drop_path(heap, call.ret, One, FALSE, u)} :
             /\ heap' = r.heap
             /\ call' = [call EXCEPT !.x = call.ret, !.xin = heap[call.ret],
                            !.keep_prob = r.keep_prob, !.inplace = FALSE,
                            !.mask = r.mask, !.outcome = r.outcome, !.ret = r.ret,
                            !.draws = r.draws, !.depth = call.depth + 1,
                            !.kps = Append(call.kps, One)]
    /\ UNCHANGED <<layer, pair>>

\* BottleNeck(...)(x); its self.drop_path is DropPath(), in the block's mode
BottleNeckForward(x, w, training, u) ==
    /\ Idle
    /\ \E L \in {[DropPathInit(DefaultP, FALSE) EXCEPT !.training = training]} :
         \E r \in {BottleNeck_forward(x, w, L, u)} :
           /\ heap' = r.heap
           /\ call' = [NoCall EXCEPT !.op = "bottleneck", !.x = 1, !.xin = x,
                          !.keep_prob = r.keep_prob,
                          !.inplace = L.inplace, !.training = training,
                          !.p = L.p, !.mask = r.mask, !.outcome = r.outcome,
                          !.ret = r.ret, !.draws = r.draws, !.res = r.res,
                          !.branch = r.branch]
    /\ UNCHANGED <<layer, pair>>

\* the two mask cells, run on the same uniform values
MaskCells(keep_prob, u) ==
    /\ Idle
    /\ call' = [NoCall EXCEPT !.op = "mask_cells", !.keep_prob = keep_prob,
                   !.outcome = IF BernoulliAccepts(keep_prob) THEN "ok" ELSE "error",
                   !.bern = IF BernoulliAccepts(keep_prob)
                            THEN [i \in 1..CellBatch |-> BernoulliEntry(u[i], keep_prob)]
                            ELSE <<>>,
                   !.rand = [i \in 1..CellBatch |-> RandEntry(u[i], keep_prob)]]
    /\ UNCHANGED <<heap, layer, pair>>

\* the caller drops the result; nothing of an invocation outlives it
Release ==
    /\ ~Idle
    /\ heap' = <<>>
    /\ call' = NoCall
    /\ UNCHANGED <<layer, pair>>

\* drop_path with inplace = False and with inplace = True, each on its own
\* copy of one input and under the same uniform values
PairInputs ==
    UNION {{[NoPair EXCEPT !.x = x, !.keep_prob = k, !.u = u] : u \in Draws(x)} :
             x \in Inputs, k \in Probs}

InitPair ==
    /\ heap = <<>>
    /\ layer = NoLayer
    /\ call = NoCall
    /\ pair \in PairInputs

PairFunctional ==
    /\ pair.fn = NoResult
    /\ pair' = [pair EXCEPT !.fn = drop_path(<<pair.x>>, 1, pair.keep_prob, FALSE, pair.u)]
    /\ UNCHANGED <<heap, layer, call>>

PairInplace ==
    /\ pair.ip = NoResult
    /\ pair' = [pair EXCEPT !.ip = drop_path(<<pair.x>>, 1, pair.keep_prob, TRUE, pair.u)]
    /\ UNCHANGED <<heap, layer, call>>

\* the operator and the notebook's mask cells
Next ==
    \/ \E x \in Inputs, keep_prob \in Probs, inplace \in BOOLEAN :
         \E u \in Draws(x) : DropPathCall(x, keep_prob, inplace, u)
    \/ DropPathDefault
    \/ \E keep_prob \in Probs, u \in [1..CellBatch -> U] : MaskCells(keep_prob, u)
    \/ Release

Spec == Init /\ [][Next]_vars

\* the layer and the residual block
NextLayer ==
    \/ \E p \in Probs, inplace \in BOOLEAN : Construct(p, inplace)
    \/ \E m \in BOOLEAN : SetMode(m)
    \/ \E x \in Inputs : \E u \in Draws(x) : Forward(x, u)
    \/ \E x \in Images, w \in Weights, training \in BOOLEAN :
         \E u \in Draws(x) : BottleNeckForward(x, w, training, u)
    \/ Release

SpecLayer == Init /\ [][NextLayer]_vars

NextPair == PairFunctional \/ PairInplace

SpecPair == InitPair /\ [][NextPair]_vars

\* ================================================================ claims
\* the flat indices of batch element b of tensor t (rank >= 1)
Elem(t, b) ==
    LET per == Numel(t.shape) \div t.shape[1]
    IN  {i \in 1..Numel(t.shape) : (i - 1) \div per = b - 1}

Batch(t) == 1..t.shape[1]

Out == heap[call.ret]

Ones22 == [shape |-> <<2, 2>>, data |-> <<One, One, One, One>>]

Half == <<1, 2>>

\* C1: in training mode with 0 < p < 1, forward(x) invokes drop_path with
\* keep probability 1 - p, and every batch element of the result is all
\* zeros or the input element times 1 / (1 - p).
C1_ForwardKeepsOneMinusP ==
    (/\ call.op = "forward"
     /\ call.training
     /\ RLess(Zero, call.p) /\ RLess(call.p, One)
     /\ Rank(call.xin) > 0)
    => LET keep == RAdd(One, RMul(<<-1, 1>>, call.p))
       IN  /\ call.outcome = "ok"
           /\ call.keep_prob = keep
           /\ \A b \in Batch(call.xin) :
                \/ \A i \in Elem(call.xin, b) : Out.data[i] = Zero
                \/ \A i \in Elem(call.xin, b) :
                     Out.data[i] = RMul(call.xin.data[i], RInv(keep))

\* C2: in evaluation mode, or with p = 0 in training mode, forward(x)
\* returns the input tensor itself, the heap holds that tensor unchanged
\* and nothing else, and no random value is consumed.
C2_BypassIsIdentity ==
    (/\ call.op = "forward"
     /\ (~call.training \/ call.p = Zero))
    => /\ call.outcome = "ok"
       /\ call.ret = call.x
       /\ heap = <<call.xin>>
       /\ call.draws = 0

C2_Witness ==
    /\ call.op = "forward"
    /\ ~call.training
    /\ call.p = <<3, 4>>
    /\ call.inplace
    /\ call.xin = Ones22
    /\ Out = Ones22

\* C3: for keep_prob in (0, 1], every scalar of a batch element whose
\* Bernoulli outcome is 0 is exactly 0 in the result and every scalar of an
\* element whose outcome is 1 is the input scalar times 1 / keep_prob; the
\* result has the input's shape.
C3_PerElementAtomicity ==
    (/\ call.op = "drop_path"
     /\ call.outcome = "ok"
     /\ RLess(Zero, call.keep_prob) /\ RLeq(call.keep_prob, One))
    => /\ Out.shape = call.xin.shape
       /\ Len(call.mask) = call.xin.shape[1]
       /\ \A b \in Batch(call.xin) : \A i \in Elem(call.xin, b) :
            Out.data[i] = IF call.mask[b] = 0 THEN Zero
                          ELSE RMul(call.xin.data[i], RInv(call.keep_prob))

C3_Witness ==
    /\ call.op = "drop_path"
    /\ call.xin = Ones22
    /\ call.keep_prob = Half
    /\ call.mask = <<1, 0>>
    /\ Out.data = <<<<2, 1>>, <<2, 1>>, Zero, Zero>>

\* C4: drop_path called with keep_prob <= 0 ends in an error and leaves the
\* input tensor as it was.
C4_NonPositiveKeepProbRejected ==
    (/\ call.op = "drop_path"
     /\ RLeq(call.keep_prob, Zero))
    => /\ call.outcome = "error"
       /\ heap[call.x] = call.xin

\* C5: every DropPath layer that exists has a drop probability in [0, 1).
C5_LayerProbabilityInRange ==
    layer.exists => (RLeq(Zero, layer.p) /\ RLess(layer.p, One))

\* C6: on the same input and the same uniform values, drop_path with
\* inplace = False and with inplace = True end alike and return equal
\* values; the first returns a new tensor and leaves the input unchanged,
\* the second returns the input's handle, allocates nothing and leaves the
\* result in the input's storage.
C6_InplaceAgreesWithFunctional ==
    (pair.fn # NoResult /\ pair.ip # NoResult)
    => /\ pair.fn.outcome = pair.ip.outcome
       /\ pair.fn.mask = pair.ip.mask
       /\ pair.fn.outcome = "ok" =>
            /\ pair.fn.heap[pair.fn.ret] = pair.ip.heap[pair.ip.ret]
            /\ pair.fn.ret # 1
            /\ pair.fn.heap[1] = pair.x
            /\ pair.ip.ret = 1
            /\ Len(pair.ip.heap) = 1

C6_Witness ==
    /\ pair.x = Ones22
    /\ pair.keep_prob = Half
    /\ pair.fn.outcome = "ok"
    /\ pair.ip.outcome = "ok"
    /\ pair.fn.mask = <<0, 1>>
    /\ pair.ip.heap[1].data = <<Zero, Zero, <<2, 1>>, <<2, 1>>>>
    /\ pair.fn.heap[2] = pair.ip.heap[1]

\* C7: in the residual block in training mode, the output for every batch
\* element whose mask entry is 0 equals the skip value of that element, and
\* the skip tensor res is what it was before the DropPath step.
C7_DroppedBranchLeavesSkip ==
    (/\ call.op = "bottleneck"
     /\ call.training
     /\ call.outcome = "ok")
    => /\ heap[call.res] = call.xin
       /\ \A b \in Batch(call.xin) :
            call.mask[b] = 0 =>
              \A i \in Elem(call.xin, b) : Out.data[i] = call.xin.data[i]

C7_Witness ==
    /\ call.op = "bottleneck"
    /\ call.training
    /\ call.outcome = "ok"
    /\ call.xin.shape = <<2, 2, 1, 1>>
    /\ call.mask = <<0, 1>>
    /\ \A i \in 1..4 : call.branch.data[i] # Zero
    /\ Out.data[1] = call.xin.data[1]
    /\ Out.data[3] # call.xin.data[3]

\* C8: with keep_prob = 1 drop_path succeeds on every input that has a
\* batch dimension and returns the input's values, and a chain of such
\* calls returns the values the chain started from.
C8_KeepProbOneIsIdentity ==
    (/\ call.op = "drop_path"
     /\ call.keep_prob = One
     /\ Rank(call.xin) > 0)
    => /\ call.outcome = "ok"
       /\ Out = call.xin
       /\ \A b \in Batch(call.xin) : call.mask[b] = 1
       /\ (\A k \in 1..Len(call.kps) : call.kps[k] = One) => Out = call.first

C8_Witness ==
    /\ call.op = "drop_path"
    /\ call.depth = 2
    /\ call.kps = <<One, One, One>>
    /\ call.first.shape = <<2, 2>>
    /\ call.first.data[4] = <<4, 1>>
    /\ Out = call.first

\* C9: on the same uniform values the mask cell built with bernoulli_ and
\* the mask cell built with torch.rand(...) > keep_prob hold the same mask.
C9_MaskCellsAgree ==
    (call.op = "mask_cells" /\ call.outcome = "ok") => call.bern = call.rand

\* C10: drop_path on a tensor of rank 0 ends in an error: no random value is
\* consumed, nothing is returned and the heap holds the input unchanged.
C10_RankZeroFails ==
    (/\ call.op = "drop_path"
     /\ Rank(call.xin) = 0)
    => /\ call.outcome = "error"
       /\ call.ret = 0
       /\ call.draws = 0
       /\ call.mask = <<>>
       /\ heap = <<call.xin>>

C10_Witness ==
    /\ call.op = "drop_path"
    /\ call.xin = [shape |-> <<>>, data |-> <<One>>]
    /\ call.keep_prob = Half
    /\ call.inplace
    /\ call.outcome = "error"

====
